---- MODULE Spec2Model ----
(***************************************************************************)
(* Model of the GCS XML multipart upload client (package multipartclient). *)
(*                                                                         *)
(* A Go string is a sequence of tokens: a token is either one significant  *)
(* character ("/", "?", "#", "%", "&", "=", a hex digit, ...) or a run of  *)
(* ordinary characters ("uploads", "b1", "Bucket not found.").  String     *)
(* concatenation is \o, so formatting (fmt.Sprintf, fmt.Errorf) and URL    *)
(* parsing are computed on the text, not assumed.                          *)
(*                                                                         *)
(* Every operation blocks in hc.Do: the part of the method before the      *)
(* transport answers is one action (Call...), the part after it is a       *)
(* second action (Return...).  Several callers share one client value.     *)
(***************************************************************************)
EXTENDS Integers, Sequences, FiniteSets, TLC

VARIABLES
    mpuc,      \* the shared *MultipartClient
    calls,     \* per caller: the activation record of the method it runs
    sessions   \* history: what this client has seen happen to each uploadID

vars == <<mpuc, calls, sessions>>

----------------------------------------------------------------------------
(* Bounds of the model *)

MaxParts == 2          \* longest CompleteMultipartUploadBody.Parts drawn
NumCallers == 2        \* goroutines calling the shared client concurrently

Callers == 1..NumCallers
MainCallers == {1}

----------------------------------------------------------------------------
(* Strings *)

RECURSIVE IndexFrom(_, _, _)
IndexFrom(s, t, i) ==
    IF i > Len(s) THEN 0
    ELSE IF s[i] = t THEN i
    ELSE IndexFrom(s, t, i + 1)

\* strings.Index for a one-token needle: 0 when absent
Index(s, t) == IndexFrom(s, t, 1)

Count(s, t) == Cardinality({i \in 1..Len(s) : s[i] = t})

Before(s, i) == SubSeq(s, 1, i - 1)
After(s, i) == SubSeq(s, i + 1, Len(s))

SetMax(S) == CHOOSE x \in S : \A y \in S : y <= x

HexChars == {"0", "1", "2", "3", "4", "5", "6", "7", "8", "9",
             "A", "B", "C", "D", "E", "F"}

Digit == <<"0", "1", "2", "3", "4", "5", "6", "7", "8", "9">>

\* bytes in a token
TokenLen(t) ==
    CASE t \in {"\n", "\"", "&", "<", ">", "'", "/", "?", "#", "%", "="} \cup HexChars -> 1
      [] t \in {"  ", "e1", "e2", "b1", "u1", "u2"} -> 2
      [] t = "    " -> 4
      [] t \in {"&#34;", "&#39;", "&amp;"} -> 5
      [] t \in {"&lt;", "&gt;"} -> 4
      [] t \in {"<Part>", "<ETag>"} -> 6
      [] t \in {"</Part>", "</ETag>"} -> 7
      [] t = "<PartNumber>" -> 12
      [] t = "</PartNumber>" -> 13
      [] t = "<CompleteMultipartUpload>" -> 25
      [] t = "</CompleteMultipartUpload>" -> 26
      [] OTHER -> 1

RECURSIVE ByteLen(_)
\* len(s) of a Go string: its length in bytes
ByteLen(s) == IF s = <<>> THEN 0 ELSE TokenLen(Head(s)) + ByteLen(Tail(s))

RECURSIVE Itoa(_)
\* fmt's %v / fmt.Sprint / xml marshalling of a non-negative int
Itoa(n) ==
    IF n < 10 THEN <<Digit[n + 1]>>
    ELSE Itoa(n \div 10) \o <<Digit[(n % 10) + 1]>>

----------------------------------------------------------------------------
(* Errors.  An error value is its origin and its message text; nil is      *)
(* NilErr.                                                                 *)

NilErr == [from |-> "nil", msg |-> <<>>]

Err(from, msg) == [from |-> from, msg |-> msg]

\* errors.New(text), as called by checkResponse
ErrorsNew(text) == Err("checkResponse", text)

\* fmt.Errorf("%w (failed to read response body); %s", readErr, errStr)
ErrorfReadBody(readErr, errStr) ==
    Err("checkResponse", readErr.msg \o <<" (failed to read response body); ">> \o errStr)

\* fmt.Errorf("failed to parse XML body from HTTP response: %v. Response: %v", err, dump)
ErrorfParseXML(err, dump) ==
    Err("Decode", <<"failed to parse XML body from HTTP response: ">> \o err.msg
                  \o <<". Response: ">> \o dump)

----------------------------------------------------------------------------
(* net/url and net/http request construction, as far as the client's      *)
(* fmt.Sprintf'ed URLs exercise it                                         *)

Host == "https://storage.googleapis.com"

HexDigit == HexChars

CTLByte == {"\n", "\r", "\t"}

\* the byte a %XY escape stands for (the escapes the inputs can form)
PctDecode(h1, h2) ==
    CASE h1 = "4" /\ h2 = "1" -> "A"
      [] h1 = "4" /\ h2 = "4" -> "D"
      [] h1 = "2" /\ h2 = "0" -> " "
      [] h1 = "2" /\ h2 = "F" -> "/"
      [] OTHER -> "byte"

RECURSIVE Unescape(_)
\* url.unescape: fails on a '%' not followed by two hex digits
Unescape(s) ==
    IF s = <<>> THEN [ok |-> TRUE, out |-> <<>>]
    ELSE IF Head(s) = "%" THEN
        IF Len(s) >= 3 /\ s[2] \in HexDigit /\ s[3] \in HexDigit
        THEN LET r == Unescape(SubSeq(s, 4, Len(s)))
             IN [ok |-> r.ok, out |-> <<PctDecode(s[2], s[3])>> \o r.out]
        ELSE [ok |-> FALSE, out |-> <<>>]
    ELSE LET r == Unescape(Tail(s))
         IN [ok |-> r.ok, out |-> <<Head(s)>> \o r.out]

NilURL == [ok |-> FALSE, Host |-> "", Path |-> <<>>, RawQuery |-> <<>>,
           ForceQuery |-> FALSE, Fragment |-> <<>>]

\* url.Parse of a URL that starts with the fixed scheme and host token
URLParse(raw) ==
    LET h == Index(raw, "#")
        u == IF h = 0 THEN raw ELSE Before(raw, h)
        frag == IF h = 0 THEN <<>> ELSE After(raw, h)
        rest == Tail(u)
        force == /\ rest # <<>>
                 /\ rest[Len(rest)] = "?"
                 /\ Count(rest, "?") = 1
        q == Index(rest, "?")
        rawpath == IF force THEN Before(rest, Len(rest))
                   ELSE IF q = 0 THEN rest ELSE Before(rest, q)
        rawquery == IF force \/ q = 0 THEN <<>> ELSE After(rest, q)
        path == Unescape(rawpath)
        fragment == Unescape(frag)
    IN IF (\E i \in 1..Len(u) : u[i] \in CTLByte) \/ ~path.ok \/ ~fragment.ok
       THEN NilURL
       ELSE [ok |-> TRUE, Host |-> Head(u), Path |-> path.out, RawQuery |-> rawquery,
             ForceQuery |-> force, Fragment |-> fragment.out]

NilReq == [Method |-> "", URL |-> NilURL, Header |-> <<>>, Body |-> <<>>, ContentLength |-> 0]

ErrParseURL == Err("NewRequest", <<"parse: invalid URL">>)

\* http.NewRequest(method, url, body): the request, or the URL parse error.
\* Request.ContentLength is set only for a *bytes.Buffer, *bytes.Reader or
\* *strings.Reader body; the client passes http.NoBody, an io.NopCloser or the
\* caller's io.ReadCloser, so it stays 0 (no body, or length unknown)
NewRequest(method, url, body) ==
    LET u == URLParse(url)
    IN IF ~u.ok THEN [req |-> NilReq, err |-> ErrParseURL]
       ELSE [req |-> [Method |-> method, URL |-> u, Header |-> <<>>, Body |-> body,
                      ContentLength |-> 0],
             err |-> NilErr]

\* textproto.CanonicalMIMEHeaderKey for the header names the inputs can form:
\* the first letter and every letter after a '-' in upper case, the rest in lower
CanonicalMIMEHeaderKey(name) ==
    CASE name = <<"x-goog-meta-", "mtime">> -> <<"X-Goog-Meta-", "Mtime">>
      [] name = <<"x-goog-meta-", "Mtime">> -> <<"X-Goog-Meta-", "Mtime">>
      [] name = <<"x-goog-meta-", "MTIME">> -> <<"X-Goog-Meta-", "Mtime">>
      [] name = <<"x-goog-meta-", "ctime">> -> <<"X-Goog-Meta-", "Ctime">>
      [] OTHER -> name

\* http.Header.Add(key, value): append under the canonical key
HeaderAdd(h, key, value) ==
    LET k == CanonicalMIMEHeaderKey(key)
    IN IF k \in DOMAIN h THEN [h EXCEPT ![k] = Append(@, value)]
       ELSE [x \in DOMAIN h \cup {k} |-> IF x = k THEN <<value>> ELSE h[x]]

\* httpReq.Header[key] = []string{value}: plain map assignment, no canonicalisation
HeaderAssign(h, key, value) ==
    [x \in DOMAIN h \cup {key} |-> IF x = key THEN <<value>> ELSE h[x]]

----------------------------------------------------------------------------
(* The injected clock (mpuc.now) and the Date header stamped from it       *)

\* the readings mpuc.now() can give, in seconds since the Unix epoch;
\* newFake pins it to time.Unix(0, 0)
Instants == {0, 1, 90061}

Weekdays == <<"Sun", "Mon", "Tue", "Wed", "Thu", "Fri", "Sat">>

TwoDigits(n) == <<Digit[(n \div 10) + 1], Digit[(n % 10) + 1]>>

\* variant: the instant is formatted in a zone one hour east of UTC
FormatRFC1123Local(t) ==
    LET l == t + 3600
        days == l \div 86400
        secs == l % 86400
    IN <<Weekdays[((days + 4) % 7) + 1], ", ">> \o TwoDigits(days + 1)
       \o <<" Jan 1970 ">> \o TwoDigits(secs \div 3600) \o <<":">>
       \o TwoDigits((secs % 3600) \div 60) \o <<":">> \o TwoDigits(secs % 60)
       \o <<" CET">>

\* now().UTC().Format(time.RFC1123) for an instant of January 1970;
\* 1 January 1970 was a Thursday
FormatRFC1123(t) ==
    LET days == t \div 86400
        secs == t % 86400
    IN <<Weekdays[((days + 4) % 7) + 1], ", ">> \o TwoDigits(days + 1)
       \o <<" Jan 1970 ">> \o TwoDigits(secs \div 3600) \o <<":">>
       \o TwoDigits((secs % 3600) \div 60) \o <<":">> \o TwoDigits(secs % 60)
       \o <<" UTC">>

\* the request gets its Date header from the clock's reading
SetDate(nr, t) ==
    IF nr.err # NilErr THEN nr
    ELSE [req |-> [nr.req EXCEPT !.Header = HeaderAdd(@, <<"Date">>, FormatRFC1123(t))],
          err |-> NilErr]

----------------------------------------------------------------------------
(* encoding/xml: marshalling the CompleteMultipartUpload request body       *)

\* xml.EscapeText, token by token
EscapeToken(t) ==
    CASE t = "\"" -> "&#34;"
      [] t = "'" -> "&#39;"
      [] t = "&" -> "&amp;"
      [] t = "<" -> "&lt;"
      [] t = ">" -> "&gt;"
      [] OTHER -> t

EscapeText(s) == [i \in 1..Len(s) |-> EscapeToken(s[i])]

\* one CompletePart: XMLName "Part", fields PartNumber and ETag, at indent depth 1
EncodePart(p) ==
    <<"\n", "  ", "<Part>", "\n", "    ", "<PartNumber>">> \o Itoa(p.PartNumber)
    \o <<"</PartNumber>", "\n", "    ", "<ETag>">> \o EscapeText(p.Etag)
    \o <<"</ETag>", "\n", "  ", "</Part>">>

RECURSIVE EncodeParts(_)
\* the Parts slice is marshalled element by element, in slice order
EncodeParts(parts) ==
    IF parts = <<>> THEN <<>>
    ELSE EncodePart(Head(parts)) \o EncodeParts(Tail(parts))

\* variant: the parts are put in ascending part-number order before encoding
EncodeCompleteMultipartUploadBodySorted(body) ==
    LET sorted == SortSeq(body.Parts, LAMBDA a, b : a.PartNumber < b.PartNumber)
    IN <<"<CompleteMultipartUpload>">> \o EncodeParts(sorted)
       \o (IF sorted = <<>> THEN <<>> ELSE <<"\n">>)
       \o <<"</CompleteMultipartUpload>">>

\* encoder.Indent("", "  "); encoder.Encode(req.Body)
EncodeCompleteMultipartUploadBody(body) ==
    <<"<CompleteMultipartUpload>">> \o EncodeParts(body.Parts)
    \o (IF body.Parts = <<>> THEN <<>> ELSE <<"\n">>)
    \o <<"</CompleteMultipartUpload>">>

----------------------------------------------------------------------------
(* encoding/xml: the response documents the transport can answer with, and *)
(* unmarshalling them into the result structs                              *)

Leaf(name, text) == [name |-> name, text |-> text, kids |-> <<>>]
Elem(name, kids) == [name |-> name, text |-> <<>>, kids |-> kids]

DocInitiate == "<InitiateMultipartUploadResult xmlns=s3><Bucket>b1</Bucket><Key>k</Key><UploadId>u1</UploadId></InitiateMultipartUploadResult>"
DocInitiateNoKey == "<InitiateMultipartUploadResult><Bucket>b1</Bucket><Extra>x</Extra><UploadId>u2</UploadId></InitiateMultipartUploadResult>"
DocComplete == "<CompleteMultipartUploadResult xmlns=s3><Location>loc</Location><Bucket>b1</Bucket><Key>k</Key><ETag>etag</ETag></CompleteMultipartUploadResult>"
DocCompleteNoLocation == "<CompleteMultipartUploadResult><Bucket>b1</Bucket><Key>k</Key><ETag>etag</ETag></CompleteMultipartUploadResult>"
DocListUploads == "<ListMultipartUploadsResult><Bucket>b1</Bucket><NextKeyMarker>k</NextKeyMarker><NextUploadIdMarker>u2</NextUploadIdMarker><MaxUploads>2</MaxUploads><IsTruncated>true</IsTruncated><Upload><Key>k</Key><UploadId>u1</UploadId><StorageClass>STANDARD</StorageClass><Initiated>2021-11-10T20:48:33.000Z</Initiated></Upload><Upload><Key>k</Key><UploadId>u2</UploadId><StorageClass>STANDARD</StorageClass><Initiated>2021-11-10T20:49:33.000Z</Initiated></Upload></ListMultipartUploadsResult>"
DocListParts == "<ListPartsResult><IsTruncated>true</IsTruncated><Part><PartNumber>2</PartNumber><ETag>e2</ETag></Part><Part><PartNumber>1</PartNumber><ETag>e1</ETag></Part></ListPartsResult>"
DocError == "<Error><Code>NoSuchUpload</Code></Error>"
DocTruncated == "<InitiateMultipartUploadResult><Bucket>"
TextNotFound == "Bucket not found."

NoTree == [name |-> "", text |-> <<>>, kids |-> <<>>]

\* the element tree xml.Decoder reads from a body, NoTree when the text holds
\* no complete root element
XMLTree(data) ==
    CASE data = <<DocInitiate>> ->
            Elem("InitiateMultipartUploadResult",
                 <<Leaf("Bucket", <<"b1">>), Leaf("Key", <<"k">>), Leaf("UploadId", <<"u1">>)>>)
      [] data = <<DocInitiateNoKey>> ->
            Elem("InitiateMultipartUploadResult",
                 <<Leaf("Bucket", <<"b1">>), Leaf("Extra", <<"x">>), Leaf("UploadId", <<"u2">>)>>)
      [] data = <<DocComplete>> ->
            Elem("CompleteMultipartUploadResult",
                 <<Leaf("Location", <<"loc">>), Leaf("Bucket", <<"b1">>),
                   Leaf("Key", <<"k">>), Leaf("ETag", <<"etag">>)>>)
      [] data = <<DocCompleteNoLocation>> ->
            Elem("CompleteMultipartUploadResult",
                 <<Leaf("Bucket", <<"b1">>), Leaf("Key", <<"k">>), Leaf("ETag", <<"etag">>)>>)
      [] data = <<DocListUploads>> ->
            Elem("ListMultipartUploadsResult",
                 <<Leaf("Bucket", <<"b1">>), Leaf("NextKeyMarker", <<"k">>),
                   Leaf("NextUploadIdMarker", <<"u2">>), Leaf("MaxUploads", <<"2">>),
                   Leaf("IsTruncated", <<"true">>),
                   Elem("Upload", <<Leaf("Key", <<"k">>), Leaf("UploadId", <<"u1">>),
                                    Leaf("StorageClass", <<"STANDARD">>),
                                    Leaf("Initiated", <<"2021-11-10T20:48:33.000Z">>)>>),
                   Elem("Upload", <<Leaf("Key", <<"k">>), Leaf("UploadId", <<"u2">>),
                                    Leaf("StorageClass", <<"STANDARD">>),
                                    Leaf("Initiated", <<"2021-11-10T20:49:33.000Z">>)>>)>>)
      [] data = <<DocListParts>> ->
            Elem("ListPartsResult",
                 <<Leaf("IsTruncated", <<"true">>),
                   Elem("Part", <<Leaf("PartNumber", <<"2">>), Leaf("ETag", <<"e2">>)>>),
                   Elem("Part", <<Leaf("PartNumber", <<"1">>), Leaf("ETag", <<"e1">>)>>)>>)
      [] data = <<DocError>> ->
            Elem("Error", <<Leaf("Code", <<"NoSuchUpload">>)>>)
      [] OTHER -> NoTree

\* the error xml.Decoder reports for a text without a complete root element
XMLSyntaxErr(data) ==
    IF data = <<DocTruncated>>
    THEN Err("xml", <<"XML syntax error on line 1: unexpected EOF">>)
    ELSE Err("xml", <<"EOF">>)

\* a string field tagged `xml:"name"`: the text of the last child of that
\* name, the zero value when there is none
Field(kids, name) ==
    LET idx == {i \in 1..Len(kids) : kids[i].name = name}
    IN IF idx = {} THEN <<>> ELSE kids[SetMax(idx)].text

\* a slice field tagged `xml:"name"`: the children of that name, in order
Children(kids, name) == SelectSeq(kids, LAMBDA k : k.name = name)

\* strconv on the text of an int field
IsInt(text) == Len(text) = 1 /\ \E d \in 1..10 : Digit[d] = text[1]
Atoi(text) == (CHOOSE d \in 1..10 : Digit[d] = text[1]) - 1

NilResult == [type |-> "nil"]

ErrRootName(want, have) ==
    Err("xml", <<"expected element type <", want, "> but have <", have, ">">>)

\* variant: decoding that rejects a document with an element the struct has
\* no field for, or without one of the struct's elements
UnmarshalInitiateStrict(tree) ==
    IF tree.name # "InitiateMultipartUploadResult"
    THEN [result |-> NilResult, err |-> ErrRootName("InitiateMultipartUploadResult", tree.name)]
    ELSE IF {tree.kids[i].name : i \in DOMAIN tree.kids} # {"Bucket", "Key", "UploadId"}
    THEN [result |-> NilResult, err |-> Err("xml", <<"unexpected or missing element">>)]
    ELSE [result |-> [type |-> "InitiateMultipartUploadResult",
                      Bucket |-> Field(tree.kids, "Bucket"),
                      Key |-> Field(tree.kids, "Key"),
                      UploadID |-> Field(tree.kids, "UploadId")],
          err |-> NilErr]

\* xml.Unmarshal into InitiateMultipartUploadResult
UnmarshalInitiate(tree) ==
    IF tree.name # "InitiateMultipartUploadResult"
    THEN [result |-> NilResult, err |-> ErrRootName("InitiateMultipartUploadResult", tree.name)]
    ELSE [result |-> [type |-> "InitiateMultipartUploadResult",
                      Bucket |-> Field(tree.kids, "Bucket"),
                      Key |-> Field(tree.kids, "Key"),
                      UploadID |-> Field(tree.kids, "UploadId")],
          err |-> NilErr]

\* xml.Unmarshal into ListMultipartUploadsResult
UnmarshalListUploads(tree) ==
    IF tree.name # "ListMultipartUploadsResult"
    THEN [result |-> NilResult, err |-> ErrRootName("ListMultipartUploadsResult", tree.name)]
    ELSE LET ups == Children(tree.kids, "Upload")
         IN [result |-> [type |-> "ListMultipartUploadsResult",
                         Uploads |-> [i \in 1..Len(ups) |->
                                         [UploadID |-> Field(ups[i].kids, "UploadId")]]],
             err |-> NilErr]

\* xml.Unmarshal into ListObjectPartsResult (no XMLName: any root is taken)
UnmarshalListParts(tree) ==
    LET ps == Children(tree.kids, "Part")
        num(i) == Field(ps[i].kids, "PartNumber")
    IN IF \E i \in 1..Len(ps) : num(i) # <<>> /\ ~IsInt(num(i))
       THEN [result |-> NilResult, err |-> Err("xml", <<"strconv.ParseInt: invalid syntax">>)]
       ELSE [result |-> [type |-> "ListObjectPartsResult",
                         Parts |-> [i \in 1..Len(ps) |->
                                       [PartNumber |-> IF num(i) = <<>> THEN 0 ELSE Atoi(num(i)),
                                        Etag |-> Field(ps[i].kids, "ETag")]]],
             err |-> NilErr]

----------------------------------------------------------------------------
(* HTTP responses, checkResponse and the deferred googleapi.CloseBody      *)

NilBody == [nil |-> TRUE, data |-> <<>>, readErr |-> FALSE]

\* a body that delivers data and then ends (readErr FALSE) or fails (TRUE)
Body(data, readErr) == [nil |-> FALSE, data |-> data, readErr |-> readErr]

NilResp == [nil |-> TRUE, StatusCode |-> 0, Status |-> <<>>, Header |-> <<>>, Body |-> NilBody]

\* a response with the given header block
RespWith(code, status, header, body) ==
    [nil |-> FALSE, StatusCode |-> code, Status |-> status, Header |-> header, Body |-> body]

\* a response without headers, as the tests' transports answer
Resp(code, status, body) == RespWith(code, status, <<>>, body)

ErrReadBody == Err("Read", <<"unexpected EOF">>)

\* io.ReadAll(resp.Body)
ReadAll(body) ==
    [data |-> body.data, err |-> IF body.readErr THEN ErrReadBody ELSE NilErr]

\* variant: only 200 counts as success
checkResponseStatusOK(resp) ==
    IF resp.StatusCode = 200 THEN NilErr
    ELSE IF ~resp.Body.nil THEN
        LET rd == ReadAll(resp.Body)
        IN IF rd.err # NilErr THEN ErrorfReadBody(rd.err, resp.Status)
           ELSE IF rd.data # <<>> THEN ErrorsNew(rd.data)
           ELSE ErrorsNew(resp.Status)
    ELSE ErrorsNew(resp.Status)

\* variant: the body is reported behind the status text
checkResponseStatusPrefix(resp) ==
    IF 200 <= resp.StatusCode /\ resp.StatusCode < 300 THEN NilErr
    ELSE IF ~resp.Body.nil THEN
        LET rd == ReadAll(resp.Body)
        IN IF rd.err # NilErr THEN ErrorfReadBody(rd.err, resp.Status)
           ELSE IF rd.data # <<>> THEN ErrorsNew(resp.Status \o <<": ">> \o rd.data)
           ELSE ErrorsNew(resp.Status)
    ELSE ErrorsNew(resp.Status)

\* variant: the fallback message is the numeric status code, not resp.Status
checkResponseCodeFallback(resp) ==
    IF 200 <= resp.StatusCode /\ resp.StatusCode < 300 THEN NilErr
    ELSE IF ~resp.Body.nil THEN
        LET rd == ReadAll(resp.Body)
        IN IF rd.err # NilErr THEN ErrorfReadBody(rd.err, resp.Status)
           ELSE IF rd.data # <<>> THEN ErrorsNew(rd.data)
           ELSE ErrorsNew(Itoa(resp.StatusCode))
    ELSE ErrorsNew(Itoa(resp.StatusCode))

\* variant: a 404 is reported as its own kind of error
checkResponseNotFound(resp) ==
    IF 200 <= resp.StatusCode /\ resp.StatusCode < 300 THEN NilErr
    ELSE IF resp.StatusCode = 404 THEN Err("checkResponse", <<"not found: ">> \o resp.Status)
    ELSE IF ~resp.Body.nil THEN
        LET rd == ReadAll(resp.Body)
        IN IF rd.err # NilErr THEN ErrorfReadBody(rd.err, resp.Status)
           ELSE IF rd.data # <<>> THEN ErrorsNew(rd.data)
           ELSE ErrorsNew(resp.Status)
    ELSE ErrorsNew(resp.Status)

checkResponse(resp) ==
    IF 200 <= resp.StatusCode /\ resp.StatusCode < 300 THEN NilErr
    ELSE IF ~resp.Body.nil THEN
        LET rd == ReadAll(resp.Body)
        IN IF rd.err # NilErr THEN ErrorfReadBody(rd.err, resp.Status)
           ELSE IF rd.data # <<>> THEN ErrorsNew(rd.data)
           ELSE ErrorsNew(resp.Status)
    ELSE ErrorsNew(resp.Status)

\* googleapi.CloseBody(resp): closes the body of a response that has one
CloseBody(resp) == ~resp.nil /\ ~resp.Body.nil

\* resp.Write(respStrBuilder) after the decoder took the body: status line,
\* header block and what is left of the body
ResponseDump(resp) ==
    <<"HTTP/0.0 ">> \o Itoa(resp.StatusCode) \o <<" ">> \o resp.Status \o <<"\r\n", "\r\n">>

\* xml.Unmarshal into the result struct the operation allocated
Unmarshal(type, tree) ==
    CASE type = "InitiateMultipartUploadResult" -> UnmarshalInitiate(tree)
      [] type = "ListMultipartUploadsResult" -> UnmarshalListUploads(tree)
      [] type = "ListObjectPartsResult" -> UnmarshalListParts(tree)

\* xml.NewDecoder(resp.Body).Decode(result)
Decode(body, type) ==
    LET tree == XMLTree(body.data)
    IN IF tree = NoTree
       THEN [result |-> NilResult,
             err |-> IF body.readErr THEN ErrReadBody ELSE XMLSyntaxErr(body.data)]
       ELSE Unmarshal(type, tree)

\* the tail every decoding operation shares: decode, or report the parse
\* error with the response dump
DecodeResult(resp, type) ==
    LET d == Decode(resp.Body, type)
    IN IF d.err # NilErr
       THEN [result |-> NilResult, err |-> ErrorfParseXML(d.err, ResponseDump(resp))]
       ELSE [result |-> d.result, err |-> NilErr]

----------------------------------------------------------------------------
(* The transport handle hc (an *http.Client over a RoundTripper)           *)

ErrMock == Err("RoundTrip", <<"mock error for testing">>)

\* http.Client.Do wraps a RoundTripper error in *url.Error
URLError(method, e) == Err("Do", <<method, " ", "\"url\"", ": ">> \o e.msg)

\* http.Client.Do: a nil response with the wrapped error, or the response
\* with a nil Body replaced by an empty one
ClientDo(httpReq, rt) ==
    IF rt.err # NilErr THEN [resp |-> NilResp, err |-> URLError(httpReq.Method, rt.err)]
    ELSE [resp |-> IF rt.resp.Body.nil
                   THEN [rt.resp EXCEPT !.Body = Body(<<>>, FALSE)]
                   ELSE rt.resp,
          err |-> NilErr]

----------------------------------------------------------------------------
(* Inputs: what callers pass and what the transport answers                *)

Buckets == {<<"b1">>}
Keys == {<<"k">>, <<"a", "/", "b">>, <<"k", "%">>, <<"k", "?", "x">>, <<"k", "#", "x">>}
UploadIDs == {<<"u1">>, <<"u2">>}
\* uploadIDs with characters that mean something in a query string
QueryUploadIDs == UploadIDs \cup {<<"u1", "&", "x", "=", "y">>, <<"u1", "#", "x">>}
PartNumbers == {1, 2}
ETags == {<<"e1">>, <<"\"", "e2", "\"">>}
PartContents == {<<>>, <<"part contents">>}

EmptyMap == <<>>
MetadataMaps ==
    {EmptyMap,
     [k \in {"mtime"} |-> <<"Saturday">>],
     [k \in {"mtime", "ctime"} |-> IF k = "mtime" THEN <<"Saturday">> ELSE <<"Friday">>],
     [k \in {"mtime", "MTIME"} |-> IF k = "mtime" THEN <<"Saturday">> ELSE <<"Friday">>]}

SeqsUpTo(S, n) == UNION {[1..k -> S] : k \in 0..n}

\* the orders a Go map range may visit a key set in
Orders(S) == {o \in [1..Cardinality(S) -> S] : \A i, j \in DOMAIN o : i # j => o[i] # o[j]}

CompleteParts == [PartNumber : PartNumbers, Etag : ETags]

InitiateRequests == [Bucket : Buckets, Key : Keys, CustomMetadata : MetadataMaps]
UploadRequests ==
    [Bucket : Buckets, Key : Keys, PartNumber : PartNumbers, UploadID : QueryUploadIDs,
     Body : PartContents]
CompleteRequests ==
    [Bucket : Buckets, Key : Keys, UploadID : UploadIDs,
     Body : [Parts : SeqsUpTo(CompleteParts, MaxParts)]]
AbortRequests == [Bucket : Buckets, Key : Keys, UploadID : UploadIDs]
\* the zero value of an optional parameter means it was not supplied
ListUploadsRequests ==
    [Bucket : Buckets, KeyMarker : {<<>>, <<"k">>}, MaxUploads : {0, 2},
     Prefix : {<<>>, <<"a">>}, UploadIdMarker : {<<>>, <<"u1">>}]
ListPartsRequests ==
    [Bucket : Buckets, Key : Keys, UploadID : QueryUploadIDs,
     MaxParts : {0, 2}, PartNumberMarker : {0, 1}]

StatusCodes == {199, 200, 204, 299, 300, 404, 500}
StatusTexts == {<<"OK">>, <<"Not Found">>}

CommonBodies ==
    {NilBody, Body(<<>>, FALSE), Body(<<>>, TRUE), Body(<<TextNotFound>>, FALSE), Body(<<TextNotFound>>, TRUE),
     Body(<<DocError>>, FALSE), Body(<<DocTruncated>>, FALSE)}

\* the documents worth answering each operation with
Bodies(op) ==
    CommonBodies \cup
    CASE op = "InitiateMultipartUpload" ->
            {Body(<<DocInitiate>>, FALSE), Body(<<DocInitiateNoKey>>, FALSE)}
      [] op = "CompleteMultipartUpload" ->
            {Body(<<DocComplete>>, FALSE), Body(<<DocCompleteNoLocation>>, FALSE)}
      [] op = "ListMultipartUploads" -> {Body(<<DocListUploads>>, FALSE)}
      [] op = "ListObjectParts" -> {Body(<<DocListParts>>, FALSE)}
      [] OTHER -> {}

\* the header blocks the service answers an uploaded part with: the part's
\* ETag, and the hashes it computed
UploadResponseHeaders ==
    {[n \in {<<"Etag">>} |-> <<<<"\"", "e2", "\"">>>>],
     [n \in {<<"Etag">>, <<"X-Goog-Hash">>} |->
         IF n = <<"Etag">> THEN <<<<"e1">>>>
         ELSE <<<<"crc32c=", "c1">>, <<"md5=", "m1">>>>]}

\* what the RoundTripper may return: an error, or a response
RoundTrips(op) ==
    {[resp |-> NilResp, err |-> ErrMock]} \cup
    {[resp |-> Resp(code, status, body), err |-> NilErr] :
        code \in StatusCodes, status \in StatusTexts, body \in Bodies(op)} \cup
    IF op = "UploadObjectPart"
    THEN {[resp |-> RespWith(code, <<"OK">>, h, Body(<<>>, FALSE)), err |-> NilErr] :
            code \in {200, 404}, h \in UploadResponseHeaders}
    ELSE {}

\* the smaller input sets of the concurrent-uploads specification
ConcUploadRequests ==
    [Bucket : Buckets, Key : {<<"k">>, <<"a", "/", "b">>}, PartNumber : PartNumbers,
     UploadID : UploadIDs, Body : PartContents]
\* the concurrent callers run against the pinned clock of newFake
ConcInstants == {0}
ConcRoundTrips ==
    {[resp |-> NilResp, err |-> ErrMock],
     [resp |-> Resp(200, <<"OK">>, Body(<<>>, FALSE)), err |-> NilErr],
     [resp |-> Resp(404, <<"Not Found">>, Body(<<TextNotFound>>, FALSE)), err |-> NilErr],
     [resp |-> Resp(404, <<"Not Found">>, NilBody), err |-> NilErr]}

----------------------------------------------------------------------------
(* The six operations.  XRequest(req) is the method up to hc.Do: the       *)
(* request it hands to the transport, or the error it returns without      *)
(* sending.  XResponse(do) is the method from hc.Do's return to its own.   *)

NoBody == <<>>

Out(result, err, checked, decoded) ==
    [result |-> result, err |-> err, checked |-> checked, decoded |-> decoded]

\* variant: Header.Set in place of Header.Add, so a header name holds the
\* value of the last key ranged over that is canonicalised to it
AddCustomMetadataSet(h, meta, order) ==
    LET name(k) == CanonicalMIMEHeaderKey(<<"x-goog-meta-", k>>)
        names == {name(order[i]) : i \in DOMAIN order}
        last(n) == SetMax({i \in DOMAIN order : name(order[i]) = n})
    IN [n \in DOMAIN h \cup names |->
           IF n \in names THEN <<meta[order[last(n)]]>> ELSE h[n]]

RECURSIVE AddCustomMetadata(_, _, _)
\* for key, value := range req.CustomMetadata { Header.Add("x-goog-meta-"+key, value) }
AddCustomMetadata(h, meta, order) ==
    IF order = <<>> THEN h
    ELSE AddCustomMetadata(HeaderAdd(h, <<"x-goog-meta-", Head(order)>>, meta[Head(order)]),
                           meta, Tail(order))

InitiateMultipartUploadRequest(req, order) ==
    LET url == <<Host, "/">> \o req.Bucket \o <<"/">> \o req.Key \o <<"?", "uploads">>
        nr == NewRequest("POST", url, NoBody)
    IN IF nr.err # NilErr THEN nr
       ELSE [req |-> [nr.req EXCEPT !.Header = AddCustomMetadata(@, req.CustomMetadata, order)],
             err |-> NilErr]

\* variant: the body is decoded before the status is checked, and what was
\* decoded is returned next to the status error
InitiateMultipartUploadResponseDecodeFirst(do) ==
    IF do.err # NilErr THEN Out(NilResult, do.err, FALSE, FALSE)
    ELSE LET d == DecodeResult(do.resp, "InitiateMultipartUploadResult")
             ce == checkResponse(do.resp)
         IN IF ce # NilErr THEN Out(d.result, ce, TRUE, TRUE)
            ELSE Out(d.result, d.err, TRUE, TRUE)

InitiateMultipartUploadResponse(do) ==
    IF do.err # NilErr THEN Out(NilResult, do.err, FALSE, FALSE)
    ELSE LET ce == checkResponse(do.resp)
         IN IF ce # NilErr THEN Out(NilResult, ce, TRUE, FALSE)
            ELSE LET d == DecodeResult(do.resp, "InitiateMultipartUploadResult")
                 IN Out(d.result, d.err, TRUE, TRUE)

\* variant: the URL is formatted into a buffer shared by all calls, so a call
\* starting while another is in flight sends that call's uploadId
UploadObjectPartRequestShared(req) ==
    LET busy == {d \in Callers : calls[d].pc = "awaiting"}
        id == IF busy = {} THEN req.UploadID
              ELSE calls[CHOOSE d \in busy : TRUE].req.UploadID
        url == <<Host, "/">> \o req.Bucket \o <<"/">> \o req.Key
               \o <<"?", "partNumber", "=">> \o Itoa(req.PartNumber)
               \o <<"&", "uploadId", "=">> \o id
    IN NewRequest("PUT", url, req.Body)

UploadObjectPartRequest(req) ==
    LET url == <<Host, "/">> \o req.Bucket \o <<"/">> \o req.Key
               \o <<"?", "partNumber", "=">> \o Itoa(req.PartNumber)
               \o <<"&", "uploadId", "=">> \o req.UploadID
    IN NewRequest("PUT", url, req.Body)

UploadObjectPartResponse(do) ==
    IF do.err # NilErr THEN Out(NilResult, do.err, FALSE, FALSE)
    ELSE Out(NilResult, checkResponse(do.resp), TRUE, FALSE)

ZeroCompleteMultipartUploadResult ==
    [type |-> "CompleteMultipartUploadResult",
     Location |-> <<>>, Bucket |-> <<>>, Key |-> <<>>, Etag |-> <<>>]

CompleteMultipartUploadRequest(req) ==
    LET strBody == EncodeCompleteMultipartUploadBody(req.Body)
        url == <<Host, "/">> \o req.Bucket \o <<"/">> \o req.Key
               \o <<"?", "uploadId", "=">> \o req.UploadID
        nr == NewRequest("POST", url, strBody)
    IN IF nr.err # NilErr THEN nr
       ELSE [req |-> [nr.req EXCEPT
                        !.Header = HeaderAssign(@, <<"ContentLength">>, Itoa(ByteLen(strBody)))],
             err |-> NilErr]

\* the result is returned as allocated: the response body is not decoded
CompleteMultipartUploadResponse(do) ==
    IF do.err # NilErr THEN Out(NilResult, do.err, FALSE, FALSE)
    ELSE LET ce == checkResponse(do.resp)
         IN IF ce # NilErr THEN Out(NilResult, ce, TRUE, FALSE)
            ELSE Out(ZeroCompleteMultipartUploadResult, NilErr, TRUE, FALSE)

AbortMultipartUploadRequest(req) ==
    LET url == <<Host, "/">> \o req.Bucket \o <<"/">> \o req.Key
               \o <<"?", "uploadId", "=">> \o req.UploadID
    IN NewRequest("DELETE", url, NoBody)

\* variant: the status is checked before the transport error is looked at
AbortMultipartUploadResponseStatusFirst(do) ==
    LET ce == checkResponse(do.resp)
    IN IF ce # NilErr THEN Out(NilResult, ce, TRUE, FALSE)
       ELSE Out(NilResult, do.err, TRUE, FALSE)

AbortMultipartUploadResponse(do) ==
    IF do.err # NilErr THEN Out(NilResult, do.err, FALSE, FALSE)
    ELSE Out(NilResult, checkResponse(do.resp), TRUE, FALSE)

\* "&name=value" when an optional string parameter was supplied, else nothing
OptionalString(name, value) ==
    IF value # <<>> THEN <<"&", name, "=">> \o value ELSE <<>>

\* "&name=value" when an optional integer parameter was supplied, else nothing
OptionalInt(name, value) ==
    IF value > 0 THEN <<"&", name, "=">> \o Itoa(value) ELSE <<>>

ListMultipartUploadsRequest(req) ==
    LET url == <<Host, "/">> \o req.Bucket \o <<"/", "?", "uploads">>
               \o OptionalString("key-marker", req.KeyMarker)
               \o OptionalInt("max-uploads", req.MaxUploads)
               \o OptionalString("prefix", req.Prefix)
               \o OptionalString("upload-id-marker", req.UploadIdMarker)
    IN NewRequest("GET", url, NoBody)

ListMultipartUploadsResponse(do) ==
    IF do.err # NilErr THEN Out(NilResult, do.err, FALSE, FALSE)
    ELSE LET ce == checkResponse(do.resp)
         IN IF ce # NilErr THEN Out(NilResult, ce, TRUE, FALSE)
            ELSE LET d == DecodeResult(do.resp, "ListMultipartUploadsResult")
                 IN Out(d.result, d.err, TRUE, TRUE)

ListObjectPartsRequest(req) ==
    LET url == <<Host, "/">> \o req.Bucket \o <<"/">> \o req.Key
               \o <<"?", "uploadId", "=">> \o req.UploadID
               \o OptionalInt("max-parts", req.MaxParts)
               \o OptionalInt("part-number-marker", req.PartNumberMarker)
    IN NewRequest("GET", url, NoBody)

ListObjectPartsResponse(do) ==
    IF do.err # NilErr THEN Out(NilResult, do.err, FALSE, FALSE)
    ELSE LET ce == checkResponse(do.resp)
         IN IF ce # NilErr THEN Out(NilResult, ce, TRUE, FALSE)
            ELSE LET d == DecodeResult(do.resp, "ListObjectPartsResult")
                 IN Out(d.result, d.err, TRUE, TRUE)

----------------------------------------------------------------------------
(* State *)

NoRequest == [none |-> TRUE]
NoRoundTrip == [resp |-> NilResp, err |-> NilErr]

IdleCall ==
    [pc |-> "idle", op |-> "", req |-> NoRequest, now |-> 0, sent |-> <<>>, rt |-> NoRoundTrip,
     doErr |-> NilErr, resp |-> NilResp, result |-> NilResult, err |-> NilErr,
     closed |-> FALSE, checked |-> FALSE, decoded |-> FALSE]

\* New(hc)
New(hc) == [hc |-> hc]

\* the methods read mpuc.hc and assign no field of the receiver
Receiver(m) == m

Init ==
    /\ mpuc = New("hc")
    /\ calls = [c \in Callers |-> IdleCall]
    /\ sessions = [u \in UploadIDs |-> "unknown"]

\* variant: the client refuses to send for a session it saw being closed
StartedSessionChecked(op, req, nr) ==
    IF nr.err # NilErr
    THEN [IdleCall EXCEPT !.pc = "done", !.op = op, !.req = req, !.err = nr.err]
    ELSE IF /\ "UploadID" \in DOMAIN req
            /\ req.UploadID \in DOMAIN sessions
            /\ sessions[req.UploadID] = "closed"
    THEN [IdleCall EXCEPT !.pc = "done", !.op = op, !.req = req,
                          !.err = Err("client", <<"upload already closed">>)]
    ELSE [IdleCall EXCEPT !.pc = "awaiting", !.op = op, !.req = req, !.sent = <<nr.req>>]

\* the method ran up to hc.Do (request handed to the transport) or returned
\* the request-construction error
Started(op, req, nr) ==
    IF nr.err # NilErr
    THEN [IdleCall EXCEPT !.pc = "done", !.op = op, !.req = req, !.err = nr.err]
    ELSE [IdleCall EXCEPT !.pc = "awaiting", !.op = op, !.req = req, !.sent = <<nr.req>>]

\* the method read the clock as t while building its request
StartedAt(op, req, nr, t) == [Started(op, req, SetDate(nr, t)) EXCEPT !.now = t]

\* variant: CloseBody is deferred after the error checks, so it runs only
\* when the method got past hc.Do and checkResponse
FinishedCloseLate(call, rt, do, out) ==
    [call EXCEPT !.pc = "done", !.rt = rt, !.doErr = do.err, !.resp = do.resp,
                 !.result = out.result, !.err = out.err,
                 !.closed = (out.checked /\ (out.err = NilErr \/ out.decoded)
                             /\ ~do.resp.nil /\ ~do.resp.Body.nil),
                 !.checked = out.checked, !.decoded = out.decoded]

\* the method ran from hc.Do's return to its own return; the deferred
\* CloseBody runs on every path
Finished(call, rt, do, out) ==
    [call EXCEPT !.pc = "done", !.rt = rt, !.doErr = do.err, !.resp = do.resp,
                 !.result = out.result, !.err = out.err,
                 !.closed = CloseBody(do.resp),
                 !.checked = out.checked, !.decoded = out.decoded]

\* history only: what the service told this client about each uploadID
SessionsAfter(op, req, out) ==
    IF out.err # NilErr THEN sessions
    ELSE IF op = "InitiateMultipartUpload" /\ out.result.UploadID \in UploadIDs
         THEN [sessions EXCEPT ![out.result.UploadID] = "open"]
    ELSE IF op \in {"CompleteMultipartUpload", "AbortMultipartUpload"}
         THEN [sessions EXCEPT ![req.UploadID] = "closed"]
    ELSE sessions

----------------------------------------------------------------------------
(* Actions *)

CallInitiateMultipartUpload(c) ==
    /\ calls[c].pc = "idle"
    /\ \E req \in InitiateRequests, t \in Instants :
       \E order \in Orders(DOMAIN req.CustomMetadata) :
          calls' = [calls EXCEPT ![c] =
                      StartedAt("InitiateMultipartUpload", req,
                              InitiateMultipartUploadRequest(req, order), t)]
    /\ mpuc' = Receiver(mpuc)
    /\ UNCHANGED sessions

CallUploadObjectPart(c, Requests, Times) ==
    /\ calls[c].pc = "idle"
    /\ \E req \in Requests, t \in Times :
          calls' = [calls EXCEPT ![c] =
                      StartedAt("UploadObjectPart", req, UploadObjectPartRequest(req), t)]
    /\ mpuc' = Receiver(mpuc)
    /\ UNCHANGED sessions

CallCompleteMultipartUpload(c) ==
    /\ calls[c].pc = "idle"
    /\ \E req \in CompleteRequests, t \in Instants :
          calls' = [calls EXCEPT ![c] =
                      StartedAt("CompleteMultipartUpload", req,
                              CompleteMultipartUploadRequest(req), t)]
    /\ mpuc' = Receiver(mpuc)
    /\ UNCHANGED sessions

CallAbortMultipartUpload(c) ==
    /\ calls[c].pc = "idle"
    /\ \E req \in AbortRequests, t \in Instants :
          calls' = [calls EXCEPT ![c] =
                      StartedAt("AbortMultipartUpload", req, AbortMultipartUploadRequest(req), t)]
    /\ mpuc' = Receiver(mpuc)
    /\ UNCHANGED sessions

CallListMultipartUploads(c) ==
    /\ calls[c].pc = "idle"
    /\ \E req \in ListUploadsRequests, t \in Instants :
          calls' = [calls EXCEPT ![c] =
                      StartedAt("ListMultipartUploads", req, ListMultipartUploadsRequest(req), t)]
    /\ mpuc' = Receiver(mpuc)
    /\ UNCHANGED sessions

CallListObjectParts(c) ==
    /\ calls[c].pc = "idle"
    /\ \E req \in ListPartsRequests, t \in Instants :
          calls' = [calls EXCEPT ![c] =
                      StartedAt("ListObjectParts", req, ListObjectPartsRequest(req), t)]
    /\ mpuc' = Receiver(mpuc)
    /\ UNCHANGED sessions

\* the tail of the method that is waiting in hc.Do
Response(op, do) ==
    CASE op = "InitiateMultipartUpload" -> InitiateMultipartUploadResponse(do)
      [] op = "UploadObjectPart" -> UploadObjectPartResponse(do)
      [] op = "CompleteMultipartUpload" -> CompleteMultipartUploadResponse(do)
      [] op = "AbortMultipartUpload" -> AbortMultipartUploadResponse(do)
      [] op = "ListMultipartUploads" -> ListMultipartUploadsResponse(do)
      [] op = "ListObjectParts" -> ListObjectPartsResponse(do)

\* hc.Do returns to the waiting method, which runs to its end
Return(c, op, RTs) ==
    /\ calls[c].pc = "awaiting"
    /\ calls[c].op = op
    /\ \E rt \in RTs :
          LET do == ClientDo(calls[c].sent[1], rt)
              out == Response(op, do)
          IN /\ calls' = [calls EXCEPT ![c] = Finished(@, rt, do, out)]
             /\ sessions' = SessionsAfter(op, calls[c].req, out)
    /\ mpuc' = Receiver(mpuc)

ReturnInitiateMultipartUpload(c) ==
    Return(c, "InitiateMultipartUpload", RoundTrips("InitiateMultipartUpload"))

ReturnUploadObjectPart(c, RTs) ==
    Return(c, "UploadObjectPart", RTs)

ReturnCompleteMultipartUpload(c) ==
    Return(c, "CompleteMultipartUpload", RoundTrips("CompleteMultipartUpload"))

ReturnAbortMultipartUpload(c) ==
    Return(c, "AbortMultipartUpload", RoundTrips("AbortMultipartUpload"))

ReturnListMultipartUploads(c) ==
    Return(c, "ListMultipartUploads", RoundTrips("ListMultipartUploads"))

ReturnListObjectParts(c) ==
    Return(c, "ListObjectParts", RoundTrips("ListObjectParts"))

\* the caller takes the method's return values and is ready to call again
Reset(c) ==
    /\ calls[c].pc = "done"
    /\ calls' = [calls EXCEPT ![c] = IdleCall]
    /\ UNCHANGED <<mpuc, sessions>>

Next ==
    \E c \in MainCallers :
        \/ CallInitiateMultipartUpload(c)
        \/ CallUploadObjectPart(c, UploadRequests, Instants)
        \/ CallCompleteMultipartUpload(c)
        \/ CallAbortMultipartUpload(c)
        \/ CallListMultipartUploads(c)
        \/ CallListObjectParts(c)
        \/ ReturnInitiateMultipartUpload(c)
        \/ ReturnUploadObjectPart(c, RoundTrips("UploadObjectPart"))
        \/ ReturnCompleteMultipartUpload(c)
        \/ ReturnAbortMultipartUpload(c)
        \/ ReturnListMultipartUploads(c)
        \/ ReturnListObjectParts(c)
        \/ Reset(c)

Spec == Init /\ [][Next]_vars

\* concurrent UploadObjectPart calls on the shared client
NextConc ==
    \E c \in Callers :
        \/ CallUploadObjectPart(c, ConcUploadRequests, ConcInstants)
        \/ ReturnUploadObjectPart(c, ConcRoundTrips)
        \/ Reset(c)

SpecConc == Init /\ [][NextConc]_vars

----------------------------------------------------------------------------
(* Properties *)

Ops == {"InitiateMultipartUpload", "UploadObjectPart", "CompleteMultipartUpload",
        "AbortMultipartUpload", "ListMultipartUploads", "ListObjectParts"}

Is2xx(code) == 200 <= code /\ code < 300

\* the call of caller c returned after the transport answered with a response
GotResponse(c) == calls[c].pc = "done" /\ calls[c].rt.err = NilErr /\ Len(calls[c].sent) = 1

\* the response the transport answered caller c with
Answer(c) == calls[c].rt.resp

\* s contains t as a contiguous run
Contains(s, t) ==
    \E i \in 0..(Len(s) - Len(t)) : SubSeq(s, i + 1, i + Len(t)) = t

\* C1: whatever the operation, a call that received a response returns an API
\* error (an error made by the status check) exactly when the status code is
\* outside [200,300); 204 and the other 2xx codes are successes.
C1_ApiErrorIffNot2xx ==
    \A c \in Callers :
        GotResponse(c) =>
            ((calls[c].err.from = "checkResponse") <=> ~Is2xx(Answer(c).StatusCode))

C1_Witness ==
    \E c \in Callers :
        /\ GotResponse(c)
        /\ calls[c].op = "AbortMultipartUpload"
        /\ Answer(c).StatusCode = 204
        /\ calls[c].err = NilErr

\* C2 as stated: a non-2xx response with a non-empty body yields an error whose
\* message is the body text verbatim.
C2_Original ==
    \A c \in Callers :
        (/\ GotResponse(c)
         /\ ~Is2xx(Answer(c).StatusCode)
         /\ Answer(c).Body.data # <<>>)
        => calls[c].err.msg = Answer(c).Body.data

\* C2 (amended): a non-2xx response whose non-empty body is read to its end
\* without a read error yields an error whose message is the body text
\* verbatim.
C2_BodyIsMessage ==
    \A c \in Callers :
        (/\ GotResponse(c)
         /\ ~Is2xx(Answer(c).StatusCode)
         /\ Answer(c).Body.data # <<>>
         /\ ~Answer(c).Body.readErr)
        => calls[c].err.msg = Answer(c).Body.data

C2_Witness ==
    \E c \in Callers :
        /\ GotResponse(c)
        /\ calls[c].op = "UploadObjectPart"
        /\ Answer(c).StatusCode = 404
        /\ Answer(c).Body = Body(<<TextNotFound>>, FALSE)
        /\ calls[c].err.msg = <<TextNotFound>>

\* C3: a non-2xx response whose body is absent (nil) or empty (ends without
\* delivering a byte) yields an error whose message is the response's status
\* text.
C3_StatusIsMessage ==
    \A c \in Callers :
        (/\ GotResponse(c)
         /\ ~Is2xx(Answer(c).StatusCode)
         /\ (Answer(c).Body.nil \/ Answer(c).Body = Body(<<>>, FALSE)))
        => calls[c].err.msg = Answer(c).Status

C3_Witness ==
    \E c \in Callers :
        /\ GotResponse(c)
        /\ calls[c].op = "AbortMultipartUpload"
        /\ Answer(c) = Resp(404, <<"Not Found">>, NilBody)
        /\ calls[c].err.msg = <<"Not Found">>

\* C4 as stated: every call that has returned issued exactly one request to
\* the transport, never zero and never a second one.
C4_ExactlyOneRequest ==
    \A c \in Callers : calls[c].pc = "done" => Len(calls[c].sent) = 1

SessionOps == {"UploadObjectPart", "CompleteMultipartUpload", "AbortMultipartUpload",
               "ListObjectParts"}

\* C5: the client value is the one New built, whatever calls were made, and a
\* call addressing an uploadID hands its request to the transport whatever
\* this client has seen of that session (never initiated, open, or already
\* completed or aborted); the only call that does not send is one whose
\* request could not be constructed.
C5_NoSessionRecord ==
    /\ mpuc = New("hc")
    /\ \A c \in Callers :
          (/\ calls[c].pc # "idle"
           /\ calls[c].op \in SessionOps
           /\ calls[c].err.from # "NewRequest")
          => /\ Len(calls[c].sent) = 1
             /\ calls[c].err.from \in {"nil", "Do", "checkResponse", "Decode"}

C5_Witness ==
    \E c \in Callers :
        /\ calls[c].pc = "awaiting"
        /\ calls[c].op = "AbortMultipartUpload"
        /\ sessions[calls[c].req.UploadID] = "closed"
        /\ \E u \in UploadIDs : sessions[u] = "unknown"

\* the request UploadObjectPart has to send for req (inputs without
\* URL-significant characters)
OwnUploadRequest(call) ==
    /\ Len(call.sent) = 1
    /\ call.sent[1].Method = "PUT"
    /\ call.sent[1].URL.Path = <<"/">> \o call.req.Bucket \o <<"/">> \o call.req.Key
    /\ call.sent[1].URL.RawQuery =
          <<"partNumber", "=">> \o Itoa(call.req.PartNumber)
          \o <<"&", "uploadId", "=">> \o call.req.UploadID
    /\ call.sent[1].Body = call.req.Body

\* the outcome UploadObjectPart has to return for the answer it got itself
OwnUploadOutcome(call) ==
    call.pc = "done" =>
        IF call.rt.err # NilErr THEN Contains(call.err.msg, call.rt.err.msg)
        ELSE IF Is2xx(call.rt.resp.StatusCode) THEN call.err = NilErr
        ELSE IF call.rt.resp.Body.data # <<>> THEN call.err.msg = call.rt.resp.Body.data
        ELSE call.err.msg = call.rt.resp.Status

\* C6: in every interleaving of concurrent UploadObjectPart calls, a step of
\* one call changes no other call's record, the request a call sends carries
\* its own bucket, key, partNumber, uploadId and body, and what it returns is
\* fixed by the answer to its own request.
C6_NoInterference ==
    [][\A c \in Callers :
          calls'[c] # calls[c] =>
              /\ \A d \in Callers \ {c} : calls'[d] = calls[d]
              /\ calls'[c].pc # "idle" =>
                    (OwnUploadRequest(calls'[c]) /\ OwnUploadOutcome(calls'[c]))]_vars

C6_Witness ==
    \E c, d \in Callers :
        /\ c # d
        /\ calls[c].pc = "done" /\ calls[d].pc = "awaiting"
        /\ calls[c].req.UploadID = calls[d].req.UploadID
        /\ calls[c].req.PartNumber > calls[d].req.PartNumber
        /\ calls[c].err = NilErr

\* C7: when the transport's send fails, the call returns the error hc.Do
\* returned, unchanged and carrying the transport's message, returns no
\* result, and neither checks a status nor decodes a body.
C7_TransportErrorPropagated ==
    \A c \in Callers :
        (calls[c].pc = "done" /\ calls[c].rt.err # NilErr) =>
            /\ calls[c].err = calls[c].doErr
            /\ calls[c].err # NilErr
            /\ Contains(calls[c].err.msg, calls[c].rt.err.msg)
            /\ calls[c].result = NilResult
            /\ ~calls[c].checked
            /\ ~calls[c].decoded

C7_Witness ==
    \E c \in Callers :
        /\ calls[c].pc = "done"
        /\ calls[c].op = "InitiateMultipartUpload"
        /\ calls[c].rt.err = ErrMock
        /\ Contains(calls[c].err.msg, <<"mock error for testing">>)

XMLOps == {"InitiateMultipartUpload", "CompleteMultipartUpload", "ListMultipartUploads",
           "ListObjectParts"}

\* body texts that are not XML documents at all
NotXML == {<<>>, <<TextNotFound>>, <<DocTruncated>>}

\* C8 as stated: a 2xx response whose body is not parseable XML makes every
\* operation with an XML response return no result and a decode error that
\* carries the parse failure and the dump of the response.
C8_DecodeError ==
    \A c \in Callers :
        (/\ GotResponse(c)
         /\ calls[c].op \in XMLOps
         /\ Is2xx(Answer(c).StatusCode)
         /\ Answer(c).Body.data \in NotXML)
        => /\ calls[c].result = NilResult
           /\ calls[c].err.from = "Decode"
           /\ \/ Contains(calls[c].err.msg, <<"EOF">>)
              \/ Contains(calls[c].err.msg, <<"XML syntax error on line 1: unexpected EOF">>)
              \/ Contains(calls[c].err.msg, <<"unexpected EOF">>)
           /\ Contains(calls[c].err.msg,
                       Itoa(Answer(c).StatusCode) \o <<" ">> \o Answer(c).Status)

\* C9 as stated: on a 2xx response CompleteMultipartUpload returns the
\* Location, Bucket, Key and ETag elements of the response document, a missing
\* element leaving its field empty.
C9_CompleteResultFromBody ==
    \A c \in Callers :
        (/\ GotResponse(c)
         /\ calls[c].op = "CompleteMultipartUpload"
         /\ Is2xx(Answer(c).StatusCode)
         /\ XMLTree(Answer(c).Body.data).name = "CompleteMultipartUploadResult")
        => LET kids == XMLTree(Answer(c).Body.data).kids
           IN /\ calls[c].err = NilErr
              /\ calls[c].result.type = "CompleteMultipartUploadResult"
              /\ calls[c].result.Location = Field(kids, "Location")
              /\ calls[c].result.Bucket = Field(kids, "Bucket")
              /\ calls[c].result.Key = Field(kids, "Key")
              /\ calls[c].result.Etag = Field(kids, "ETag")

----------------------------------------------------------------------------
(* Reading a CompleteMultipartUpload document back, as the service does    *)

UnescapeToken(t) ==
    CASE t = "&#34;" -> "\""
      [] t = "&#39;" -> "'"
      [] t = "&amp;" -> "&"
      [] t = "&lt;" -> "<"
      [] t = "&gt;" -> ">"
      [] OTHER -> t

UnescapeText(s) == [i \in 1..Len(s) |-> UnescapeToken(s[i])]

\* the text between the first tag open and the next tag close
Between(s, open, close) ==
    LET r == After(s, Index(s, open))
    IN Before(r, Index(r, close))

RECURSIVE ParseInt(_)
ParseInt(digits) ==
    IF digits = <<>> THEN 0
    ELSE 10 * ParseInt(Before(digits, Len(digits)))
         + (CHOOSE d \in 0..9 : Digit[d + 1] = digits[Len(digits)])

RECURSIVE PartsIn(_)
\* the <Part> elements of a document, in document order
PartsIn(doc) ==
    LET i == Index(doc, "<Part>")
    IN IF i = 0 THEN <<>>
       ELSE LET r == After(doc, i)
                j == Index(r, "</Part>")
                inner == Before(r, j)
            IN <<[PartNumber |-> ParseInt(Between(inner, "<PartNumber>", "</PartNumber>")),
                  Etag |-> UnescapeText(Between(inner, "<ETag>", "</ETag>"))]>>
               \o PartsIn(After(r, j))

\* C10: the body CompleteMultipartUpload sends is a CompleteMultipartUpload
\* document whose Part elements are exactly the caller's parts, one element
\* per part and in the caller's order, unsorted and repeated part numbers
\* included.
C10_PartsInCallerOrder ==
    \A c \in Callers :
        (calls[c].op = "CompleteMultipartUpload" /\ Len(calls[c].sent) = 1) =>
            LET doc == calls[c].sent[1].Body
            IN /\ Head(doc) = "<CompleteMultipartUpload>"
               /\ doc[Len(doc)] = "</CompleteMultipartUpload>"
               /\ Count(doc, "<Part>") = Len(calls[c].req.Body.Parts)
               /\ PartsIn(doc) = calls[c].req.Body.Parts

C10_Witness ==
    \E c \in Callers :
        /\ calls[c].op = "CompleteMultipartUpload"
        /\ Len(calls[c].sent) = 1
        /\ Len(calls[c].req.Body.Parts) = 2
        /\ calls[c].req.Body.Parts[1].PartNumber >= calls[c].req.Body.Parts[2].PartNumber
        /\ calls[c].req.Body.Parts[1].Etag = <<"\"", "e2", "\"">>

----------------------------------------------------------------------------
(* Request headers *)

\* the request caller c's method handed to the transport
Sent(c) == calls[c].sent[1]

HasSent(c) == calls[c].pc \in {"awaiting", "done"} /\ Len(calls[c].sent) = 1

\* RFC 1123 text, in UTC, of the readings the clock can give
DateText(t) ==
    CASE t = 0 -> <<"Thu", ", ", "0", "1", " Jan 1970 ", "0", "0", ":", "0", "0", ":", "0", "0", " UTC">>
      [] t = 1 -> <<"Thu", ", ", "0", "1", " Jan 1970 ", "0", "0", ":", "0", "0", ":", "0", "1", " UTC">>
      [] t = 90061 -> <<"Fri", ", ", "0", "2", " Jan 1970 ", "0", "1", ":", "0", "1", ":", "0", "1", " UTC">>

\* C11: every request any of the six operations sends carries exactly one
\* Date header, whose value is the reading the client's clock gave during
\* that call, written per RFC 1123 in UTC: "Thu, 01 Jan 1970 00:00:00 UTC"
\* when the clock reads Unix time 0.
C11_DateHeader ==
    \A c \in Callers :
        HasSent(c) =>
            /\ calls[c].op \in Ops
            /\ <<"Date">> \in DOMAIN Sent(c).Header
            /\ Sent(c).Header[<<"Date">>] = <<DateText(calls[c].now)>>

\* a request stamped by a clock that has moved past the epoch
C11_Witness ==
    \E c \in Callers :
        /\ HasSent(c)
        /\ calls[c].now = 90061
        /\ calls[c].op = "ListObjectParts"
        /\ Sent(c).Header[<<"Date">>] = <<DateText(90061)>>

\* the x-goog-meta-* header names of a request
MetaNames(h) == {n \in DOMAIN h : n[1] = "X-Goog-Meta-"}

\* the name Header.Add files metadata key k under
MetaName(k) == CanonicalMIMEHeaderKey(<<"x-goog-meta-", k>>)

InitiateSent(c) == HasSent(c) /\ calls[c].op = "InitiateMultipartUpload"

\* the number of header lines "n: v" a request is written with: the Header
\* map holds a list of values per name and each value goes out as one line
HeaderLines(h, n, v) ==
    IF n \in DOMAIN h THEN Cardinality({i \in DOMAIN h[n] : h[n][i] = v}) ELSE 0

\* all header lines whose name is in N
LineCount(h, N) ==
    LET RECURSIVE Sum(_)
        Sum(S) == IF S = {} THEN 0
                  ELSE LET n == CHOOSE x \in S : TRUE IN Len(h[n]) + Sum(S \ {n})
    IN Sum(N)

\* C12: an InitiateMultipartUpload request built from n metadata entries is
\* sent with exactly n x-goog-meta-* headers, one per key k: named
\* x-goog-meta-k in canonical header case and carrying exactly k's value.
\* None is sent without metadata.  This holds for every map, also when two
\* keys differ only in letter case (then two headers have the same name).
C12_MetadataHeaders ==
    \A c \in Callers :
        InitiateSent(c) =>
            LET meta == calls[c].req.CustomMetadata
                h == Sent(c).Header
            IN /\ LineCount(h, MetaNames(h)) = Cardinality(DOMAIN meta)
               /\ MetaNames(h) = {MetaName(k) : k \in DOMAIN meta}
               /\ \A k \in DOMAIN meta :
                     HeaderLines(h, MetaName(k), meta[k]) =
                        Cardinality({k2 \in DOMAIN meta :
                                        MetaName(k2) = MetaName(k) /\ meta[k2] = meta[k]})

\* a request from a map of two keys that differ only in case: two headers
\* of one name
C12_Witness ==
    \E c \in Callers :
        /\ InitiateSent(c)
        /\ DOMAIN calls[c].req.CustomMetadata = {"mtime", "MTIME"}
        /\ Len(Sent(c).Header[<<"X-Goog-Meta-", "Mtime">>]) = 2

\* the x-goog-meta-* part of a request's headers
MetaHeaders(h) == [n \in MetaNames(h) |-> h[n]]

\* C13: the headers generated from an InitiateMultipartUpload request's
\* custom metadata are a function of the map's contents alone: whatever
\* order the map is ranged over in, the header names, their values and the
\* order of the values are those of the request that was sent, so two calls
\* with equal maps send identical metadata headers.
C13_MetadataDeterministic ==
    \A c \in Callers :
        InitiateSent(c) =>
            \A order \in Orders(DOMAIN calls[c].req.CustomMetadata) :
                MetaHeaders(Sent(c).Header) =
                    MetaHeaders(AddCustomMetadata(<<>>, calls[c].req.CustomMetadata, order))

----------------------------------------------------------------------------
(* Request URLs *)

\* /{bucket}/ for ListMultipartUploads, /{bucket}/{key} for the others
WantPath(op, req) ==
    IF op = "ListMultipartUploads" THEN <<"/">> \o req.Bucket \o <<"/">>
    ELSE <<"/">> \o req.Bucket \o <<"/">> \o req.Key

\* C14: for every request of every operation, whatever the bucket and the
\* key are (keys with '/', '?', '#' or '%' included), the path of the URL
\* that is sent is /{bucket}/{key} (/{bucket}/ for ListMultipartUploads) and
\* the host is the fixed storage host.
C14_PathIsBucketKey ==
    \A c \in Callers :
        HasSent(c) =>
            /\ Sent(c).URL.Host = Host
            /\ Sent(c).URL.Path = WantPath(calls[c].op, calls[c].req)

RECURSIVE Split(_, _)
\* the pieces of s between occurrences of the token sep
Split(s, sep) ==
    LET i == Index(s, sep)
    IN IF i = 0 THEN <<s>> ELSE <<Before(s, i)>> \o Split(After(s, i), sep)

\* the values the query parameter called name is sent with, in order
QueryValues(rawquery, name) ==
    LET ps == Split(rawquery, "&")
        isName(p) == Len(p) >= 2 /\ p[1] = name /\ p[2] = "="
    IN [i \in 1..Cardinality({j \in DOMAIN ps : isName(ps[j])}) |->
           LET j == CHOOSE j \in DOMAIN ps :
                        /\ isName(ps[j])
                        /\ Cardinality({l \in 1..j : isName(ps[l])}) = i
           IN SubSeq(ps[j], 3, Len(ps[j]))]

\* the optional parameter is in the query exactly when it was supplied, and
\* then once, with the supplied value
SentIffSupplied(rawquery, name, supplied, value) ==
    QueryValues(rawquery, name) = IF supplied THEN <<value>> ELSE <<>>

\* C15: an optional query parameter of ListMultipartUploads (key-marker,
\* max-uploads, prefix, upload-id-marker) or ListObjectParts (max-parts,
\* part-number-marker) is in the URL that is sent if and only if the caller
\* supplied a non-empty string or positive integer for it, never with an
\* empty or zero value; ListObjectParts with MaxParts 2 and PartNumberMarker
\* 1 sends ?uploadId={id}&max-parts=2&part-number-marker=1, and
\* ListMultipartUploads with only a bucket sends exactly ?uploads.
C15_OptionalParameters ==
    \A c \in Callers :
        HasSent(c) =>
            LET req == calls[c].req
                q == Sent(c).URL.RawQuery
            IN /\ calls[c].op = "ListMultipartUploads" =>
                    /\ SentIffSupplied(q, "key-marker", req.KeyMarker # <<>>, req.KeyMarker)
                    /\ SentIffSupplied(q, "max-uploads", req.MaxUploads > 0, Itoa(req.MaxUploads))
                    /\ SentIffSupplied(q, "prefix", req.Prefix # <<>>, req.Prefix)
                    /\ SentIffSupplied(q, "upload-id-marker", req.UploadIdMarker # <<>>,
                                       req.UploadIdMarker)
                    /\ (req.KeyMarker = <<>> /\ req.MaxUploads = 0 /\ req.Prefix = <<>>
                        /\ req.UploadIdMarker = <<>>) => q = <<"uploads">>
               /\ calls[c].op = "ListObjectParts" =>
                    /\ SentIffSupplied(q, "max-parts", req.MaxParts > 0, Itoa(req.MaxParts))
                    /\ SentIffSupplied(q, "part-number-marker", req.PartNumberMarker > 0,
                                       Itoa(req.PartNumberMarker))
                    /\ (req.MaxParts = 2 /\ req.PartNumberMarker = 1) =>
                          q = <<"uploadId", "=">> \o req.UploadID
                              \o <<"&", "max-parts", "=", "2", "&", "part-number-marker", "=", "1">>

\* the Content-Length values a request announces: the header of that name,
\* or else the length net/http knows the body to have
ContentLengthOf(r) ==
    IF <<"Content-Length">> \in DOMAIN r.Header THEN r.Header[<<"Content-Length">>]
    ELSE IF r.ContentLength > 0 THEN <<Itoa(r.ContentLength)>>
    ELSE <<>>

\* C16: every CompleteMultipartUpload request carries a Content-Length header
\* whose value is the length in bytes of the serialized XML body it is sent
\* with, whatever the part list is (the empty list included).
C16_ContentLength ==
    \A c \in Callers :
        (HasSent(c) /\ calls[c].op = "CompleteMultipartUpload") =>
            ContentLengthOf(Sent(c)) = <<Itoa(ByteLen(Sent(c).Body))>>

----------------------------------------------------------------------------
(* UploadObjectPart *)

\* http.Header.Get: the first value under the name, "" when there is none
HeaderGet(h, name) == IF name \in DOMAIN h THEN h[name][1] ELSE <<>>

\* the value of the X-Goog-Hash header that starts with the given algorithm
HashOf(h, alg) ==
    LET vs == IF <<"X-Goog-Hash">> \in DOMAIN h THEN h[<<"X-Goog-Hash">>] ELSE <<>>
        is == {i \in DOMAIN vs : vs[i][1] = alg}
    IN IF is = {} THEN <<>> ELSE Tail(vs[CHOOSE i \in is : TRUE])

UploadAnswered2xx(c) ==
    GotResponse(c) /\ calls[c].op = "UploadObjectPart" /\ Is2xx(Answer(c).StatusCode)

\* C17: on a 2xx response UploadObjectPart gives its caller the ETag and the
\* MD5 and CRC32C hashes of the response headers, an absent header leaving
\* the value empty, and checks none of them: whatever they are, a 2xx
\* response is not turned into an error.
C17_HashesSurfaced ==
    \A c \in Callers :
        UploadAnswered2xx(c) =>
            /\ calls[c].err = NilErr
            /\ calls[c].result.type = "UploadObjectPartResult"
            /\ calls[c].result.ETag = HeaderGet(Answer(c).Header, <<"Etag">>)
            /\ calls[c].result.MD5 = HashOf(Answer(c).Header, "md5=")
            /\ calls[c].result.CRC32C = HashOf(Answer(c).Header, "crc32c=")

\* C18: UploadObjectPart sends a PUT to
\* /{bucket}/{key}?partNumber={n}&uploadId={id}, the two query parameters in
\* that order, with exactly the caller's part contents as the body; on a 2xx
\* response it returns no error whatever the response body is, on any other
\* response it returns the API error.
C18_UploadObjectPart ==
    \A c \in Callers :
        (calls[c].op = "UploadObjectPart" /\ calls[c].pc \in {"awaiting", "done"}) =>
            LET req == calls[c].req
            IN /\ Len(calls[c].sent) = 1
               /\ Sent(c).Method = "PUT"
               /\ Sent(c).URL.Host = Host
               /\ Sent(c).URL.Path = <<"/">> \o req.Bucket \o <<"/">> \o req.Key
               /\ Sent(c).URL.RawQuery =
                     <<"partNumber", "=">> \o Itoa(req.PartNumber)
                     \o <<"&", "uploadId", "=">> \o req.UploadID
               /\ Sent(c).Body = req.Body
               /\ GotResponse(c) =>
                     IF Is2xx(Answer(c).StatusCode) THEN calls[c].err = NilErr
                     ELSE calls[c].err.from = "checkResponse"

----------------------------------------------------------------------------
(* Decoded results *)

\* the call of caller c got a 2xx response whose body is the document doc
Answered2xxWith(c, op, doc) ==
    /\ GotResponse(c)
    /\ calls[c].op = op
    /\ Is2xx(Answer(c).StatusCode)
    /\ Answer(c).Body = Body(<<doc>>, FALSE)

\* the instant, in seconds since the Unix epoch, an RFC 3339 text denotes
InstantOf(text) ==
    CASE text = <<"2021-11-10T20:48:33.000Z">> -> 1636577313
      [] text = <<"2021-11-10T20:49:33.000Z">> -> 1636577373
      [] OTHER -> 0

\* C19: on a 2xx response ListMultipartUploads returns a result with one
\* Uploads entry per <Upload> element of the body, in the body's order, each
\* with that element's Key, UploadId, StorageClass and Initiated instant,
\* and with the body's Bucket, NextKeyMarker, NextUploadIdMarker, MaxUploads
\* and IsTruncated.
C19_ListUploadsResult ==
    \A c \in Callers :
        Answered2xxWith(c, "ListMultipartUploads", DocListUploads) =>
            LET kids == XMLTree(<<DocListUploads>>).kids
                ups == Children(kids, "Upload")
                res == calls[c].result
            IN /\ calls[c].err = NilErr
               /\ Len(res.Uploads) = Len(ups)
               /\ \A i \in 1..Len(ups) :
                     res.Uploads[i].UploadID = Field(ups[i].kids, "UploadId")
               /\ \A i \in 1..Len(ups) :
                     /\ {"Key", "StorageClass", "Initiated"} \subseteq DOMAIN res.Uploads[i]
                     /\ res.Uploads[i].Key = Field(ups[i].kids, "Key")
                     /\ res.Uploads[i].StorageClass = Field(ups[i].kids, "StorageClass")
                     /\ res.Uploads[i].Initiated = InstantOf(Field(ups[i].kids, "Initiated"))
               /\ {"Bucket", "NextKeyMarker", "NextUploadIdMarker", "MaxUploads", "IsTruncated"}
                     \subseteq DOMAIN res
               /\ res.Bucket = Field(kids, "Bucket")
               /\ res.NextKeyMarker = Field(kids, "NextKeyMarker")
               /\ res.NextUploadIdMarker = Field(kids, "NextUploadIdMarker")
               /\ res.MaxUploads = Atoi(Field(kids, "MaxUploads"))
               /\ res.IsTruncated = (Field(kids, "IsTruncated") = <<"true">>)

\* C20: on a 2xx response InitiateMultipartUpload returns a result whose
\* Bucket, Key and UploadID are the texts of the body's <Bucket>, <Key> and
\* <UploadId>; elements the result has no field for and namespace attributes
\* are skipped without an error, and an element the body lacks leaves its
\* field the empty string, without an error.
C20_InitiateResult ==
    \A c \in Callers :
        /\ Answered2xxWith(c, "InitiateMultipartUpload", DocInitiate) =>
              /\ calls[c].err = NilErr
              /\ calls[c].result =
                    [type |-> "InitiateMultipartUploadResult",
                     Bucket |-> <<"b1">>, Key |-> <<"k">>, UploadID |-> <<"u1">>]
        /\ Answered2xxWith(c, "InitiateMultipartUpload", DocInitiateNoKey) =>
              /\ calls[c].err = NilErr
              /\ calls[c].result =
                    [type |-> "InitiateMultipartUploadResult",
                     Bucket |-> <<"b1">>, Key |-> <<>>, UploadID |-> <<"u2">>]

\* a result decoded from a body with an unknown element and without <Key>
C20_Witness ==
    \E c \in Callers :
        /\ Answered2xxWith(c, "InitiateMultipartUpload", DocInitiateNoKey)
        /\ calls[c].result.Key = <<>>
        /\ calls[c].result.UploadID = <<"u2">>

----------------------------------------------------------------------------
(* Error paths *)

\* what the operation of caller c returns when the transport answers its
\* request with the same response under another status code
OutcomeWithCode(c, code) ==
    Response(calls[c].op,
             ClientDo(Sent(c), [resp |-> [Answer(c) EXCEPT !.StatusCode = code],
                                err |-> NilErr]))

\* C21: the error of a failed call does not depend on which status code
\* outside [200,300) the response has: for every operation, a response with
\* the same status text and the same body under any other such code (404
\* and 500, say) yields the identical error, and no result.
C21_StatusCodeIndependent ==
    \A c \in Callers :
        (GotResponse(c) /\ ~Is2xx(Answer(c).StatusCode)) =>
            \A code \in {k \in StatusCodes : ~Is2xx(k)} :
                /\ OutcomeWithCode(c, code).err = calls[c].err
                /\ OutcomeWithCode(c, code).result = calls[c].result
                /\ calls[c].err # NilErr

\* a call answered 404 with a body, whose error a 500 would equally give
C21_Witness ==
    \E c \in Callers :
        /\ GotResponse(c)
        /\ calls[c].op = "AbortMultipartUpload"
        /\ Answer(c) = Resp(404, <<"Not Found">>, Body(<<TextNotFound>>, FALSE))
        /\ calls[c].err = ErrorsNew(<<TextNotFound>>)
        /\ OutcomeWithCode(c, 500).err = calls[c].err

\* C22: every call of InitiateMultipartUpload, CompleteMultipartUpload,
\* ListMultipartUploads or ListObjectParts returns either a result and a nil
\* error, or no result and an error, never both and never neither; on a
\* response with a status outside [200,300) it returns no result and does
\* not decode the body, even when the body is a well-formed result document.
C22_ResultXorError ==
    \A c \in Callers :
        (calls[c].pc = "done" /\ calls[c].op \in XMLOps) =>
            /\ (calls[c].result = NilResult) # (calls[c].err = NilErr)
            /\ (GotResponse(c) /\ ~Is2xx(Answer(c).StatusCode)) =>
                  /\ calls[c].result = NilResult
                  /\ ~calls[c].decoded

\* a 404 whose body is a well-formed InitiateMultipartUploadResult document
C22_Witness ==
    \E c \in Callers :
        /\ GotResponse(c)
        /\ calls[c].op = "InitiateMultipartUpload"
        /\ Answer(c) = Resp(404, <<"Not Found">>, Body(<<DocInitiate>>, FALSE))
        /\ calls[c].result = NilResult
        /\ calls[c].err = ErrorsNew(<<DocInitiate>>)

\* C23: on every exit path after the transport call -- transport error,
\* status outside [200,300), failure to read the body, decode error,
\* success -- a response that was received has had its body closed when the
\* operation returns; when none was received (nil response, transport error)
\* the close step closes nothing and the call returns the error normally.
C23_BodyClosed ==
    \A c \in Callers :
        (calls[c].pc = "done" /\ Len(calls[c].sent) = 1) =>
            IF calls[c].rt.err = NilErr
            THEN /\ ~calls[c].resp.nil
                 /\ calls[c].closed
            ELSE /\ calls[c].resp = NilResp
                 /\ ~calls[c].closed
                 /\ calls[c].err = calls[c].doErr

\* a call that failed in checkResponse while reading the body
C23_Witness ==
    \E c \in Callers :
        /\ GotResponse(c)
        /\ calls[c].op = "UploadObjectPart"
        /\ Answer(c).StatusCode = 404
        /\ Answer(c).Body.readErr
        /\ calls[c].err # NilErr
        /\ calls[c].closed

\* the names of the parameters of a query string
ParamNames(rawquery) ==
    LET ps == Split(rawquery, "&")
        name(p) == IF Index(p, "=") = 0 THEN p ELSE Before(p, Index(p, "="))
    IN IF rawquery = <<>> THEN {} ELSE {name(ps[i]) : i \in DOMAIN ps}

\* url.QueryUnescape of a parameter value: %XY escapes and '+' decoded
QueryUnescape(v) ==
    LET u == Unescape(v).out
    IN [i \in DOMAIN u |-> IF u[i] = "+" THEN " " ELSE u[i]]

\* the query parameters an operation's caller supplies
SuppliedParams(op, req) ==
    CASE op = "UploadObjectPart" -> {<<"partNumber">>, <<"uploadId">>}
      [] op = "ListObjectParts" ->
            {<<"uploadId">>} \cup (IF req.MaxParts > 0 THEN {<<"max-parts">>} ELSE {})
            \cup (IF req.PartNumberMarker > 0 THEN {<<"part-number-marker">>} ELSE {})
      [] OTHER -> {<<"uploadId">>}

UploadIDOps == {"UploadObjectPart", "CompleteMultipartUpload", "AbortMultipartUpload",
                "ListObjectParts"}

\* requests whose key leaves the query string alone
PlainKey(c) == calls[c].req.Key \in {<<"k">>, <<"a", "/", "b">>}

\* C24: whatever the caller's uploadID is ('&', '=', '#' or spaces in it
\* included), the request UploadObjectPart, CompleteMultipartUpload,
\* AbortMultipartUpload and ListObjectParts send has exactly one uploadId
\* query parameter, whose decoded value is the caller's uploadID, and the
\* uploadID's content adds no parameter the caller did not supply.  Stated
\* for keys that leave the query string alone, so that what it says is about
\* the uploadID only.
C24_OneUploadIdParameter ==
    \A c \in Callers :
        (HasSent(c) /\ calls[c].op \in UploadIDOps /\ PlainKey(c)) =>
            LET q == Sent(c).URL.RawQuery
                vs == QueryValues(q, "uploadId")
            IN /\ Len(vs) = 1
               /\ QueryUnescape(vs[1]) = calls[c].req.UploadID
               /\ ParamNames(q) \subseteq SuppliedParams(calls[c].op, calls[c].req)

====
